---- MODULE Spec2Model ----
(***************************************************************************)
(* Model of the Benekov HMI -> MQTT bridge (benekov_mqtt/main.py, api.py,  *)
(* discovery.py).  Three threads share one BenekovMQTT object: the main    *)
(* thread (run), the paho network thread (on_message) and the background   *)
(* poll thread (run.loop).                                                 *)
(*                                                                         *)
(* Text that the code inspects character by character (payloads, raw       *)
(* values, option labels) is a sequence of one-character strings.  Opaque  *)
(* text (page names, object ids, write identifiers, units) is a string.    *)
(***************************************************************************)
EXTENDS Integers, Sequences, FiniteSets, TLC

\* ------------------------------------------------------------------ text

None == "None"

Digits == {"0", "1", "2", "3", "4", "5", "6", "7", "8", "9"}

Whitespace == {" "}

DigitVal(c) ==
  CASE c = "0" -> 0 [] c = "1" -> 1 [] c = "2" -> 2 [] c = "3" -> 3
    [] c = "4" -> 4 [] c = "5" -> 5 [] c = "6" -> 6 [] c = "7" -> 7
    [] c = "8" -> 8 [] c = "9" -> 9

DigitChar(d) ==
  CASE d = 0 -> "0" [] d = 1 -> "1" [] d = 2 -> "2" [] d = 3 -> "3"
    [] d = 4 -> "4" [] d = 5 -> "5" [] d = 6 -> "6" [] d = 7 -> "7"
    [] d = 8 -> "8" [] d = 9 -> "9"

\* str.strip(): leading and trailing whitespace removed.
RECURSIVE LStrip(_)
LStrip(s) ==
  IF s # <<>> /\ Head(s) \in Whitespace THEN LStrip(Tail(s)) ELSE s

RECURSIVE RStrip(_)
RStrip(s) ==
  IF s # <<>> /\ s[Len(s)] \in Whitespace
  THEN RStrip(SubSeq(s, 1, Len(s) - 1))
  ELSE s

Strip(s) == RStrip(LStrip(s))

\* str.isdigit(): non-empty and every character a digit.
IsDigit(s) == s # <<>> /\ \A i \in 1..Len(s) : s[i] \in Digits

\* The value of a digit string.
RECURSIVE DigitsValue(_)
DigitsValue(s) ==
  IF s = <<>> THEN 0
  ELSE 10 * DigitsValue(SubSeq(s, 1, Len(s) - 1)) + DigitVal(s[Len(s)])

\* int(s): surrounding whitespace ignored, an optional sign, then digits;
\* anything else raises ValueError (ok = FALSE).
PyInt(s) ==
  LET t == Strip(s)
      signed == t # <<>> /\ Head(t) \in {"+", "-"}
      body == IF signed THEN Tail(t) ELSE t
  IN  IF IsDigit(body)
      THEN [ok |-> TRUE,
            val |-> IF signed /\ Head(t) = "-" THEN 0 - DigitsValue(body)
                    ELSE DigitsValue(body)]
      ELSE [ok |-> FALSE, val |-> 0]

\* str(n) for n >= 0.
RECURSIVE PyStr(_)
PyStr(n) ==
  IF n < 10 THEN <<DigitChar(n)>>
  ELSE PyStr(n \div 10) \o <<DigitChar(n % 10)>>

\* list.index(x), 0-based; -1 stands for ValueError.
ListIndex(opts, x) ==
  IF \E i \in 1..Len(opts) : opts[i] = x
  THEN (CHOOSE i \in 1..Len(opts) :
          opts[i] = x /\ \A j \in 1..(i - 1) : opts[j] # x) - 1
  ELSE -1

Max(a, b) == IF a >= b THEN a ELSE b

Min(a, b) == IF a <= b THEN a ELSE b

Range(s) == {s[i] : i \in 1..Len(s)}

\* ------------------------------------------------- configuration (__init__)

HomePage == "HMI00001.cgi"

AlarmPage == "HMI65000.cgi"

FeedPage == "HMI00033.cgi"

OtherPage == "HMI00002.cgi"

AllPages == {HomePage, AlarmPage, FeedPage, OtherPage}

DefaultPages == <<HomePage, AlarmPage, FeedPage>>

MinPollInterval == 30

\* self.poll_interval: the configured value, raised to 30 when below it.
ClampNone(c) == c

ClampInterval(c) == IF c < MinPollInterval THEN MinPollInterval ELSE c

\* self.include_pages: the configured list, or the default monitoring pages
\* when it is empty or names only the home page.
IncludePages(cfgPages) ==
  IF cfgPages = <<>> \/ cfgPages = <<HomePage>> THEN DefaultPages ELSE cfgPages

\* Labels of the monitor whitelist.  A character outside ASCII is written
\* "~": like the original it is not in [a-z0-9_] and lower() leaves it so.
LblPower == <<"A","k","t","u","~","l","n","~"," ","v","~","k","o","n">>

LblBoiler == <<"B","2"," ","T","e","p","l","o","t","a"," ","k","o","t","l","e">>

LblReturn == <<"B","7"," ","T","e","p","l","o","t","a"," ","z","p","~","t","e","~","k","y">>

LblFlue == <<"B","8"," ","T","e","p","l","o","t","a"," ","s","p","a","l","i","n">>

LblState == <<"S","t","a","v"," ","k","o","t","l","e">>

LblFuel == <<"P","a","l","i","v","o">>

LblAlarmsActive == <<"A","l","a","r","m","y"," ","a","k","t","i","v","n","~">>

LblAlarmsHistory == <<"A","l","a","r","m","y"," ","h","i","s","t","o","r","i","e">>

LblAlarmId == <<"A","l","a","r","m"," ","I","D">>

LblFeedTime == <<"~","a","s"," ","p","o","d","~","v","~","n","~">>

LblFanPower == <<"V","~","k","o","n"," ","v","e","n","t","i","l","~","t","o","r","u">>

\* self.monitor_whitelist: (page, object id) -> {label, unit}; a missing
\* unit is None.
MonitorWhitelist ==
  << [page |-> HomePage, id |-> "o044", label |-> LblPower, unit |-> "%"],
     [page |-> HomePage, id |-> "o075", label |-> LblBoiler, unit |-> "C"],
     [page |-> HomePage, id |-> "o082", label |-> LblReturn, unit |-> "C"],
     [page |-> HomePage, id |-> "o089", label |-> LblFlue, unit |-> "C"],
     [page |-> HomePage, id |-> "o038", label |-> LblState, unit |-> None],
     [page |-> HomePage, id |-> "o148", label |-> LblFuel, unit |-> None],
     [page |-> AlarmPage, id |-> "o011", label |-> LblAlarmsActive, unit |-> None],
     [page |-> AlarmPage, id |-> "o018", label |-> LblAlarmsHistory, unit |-> None],
     [page |-> AlarmPage, id |-> "o025", label |-> LblAlarmId, unit |-> None],
     [page |-> FeedPage, id |-> "o010", label |-> LblFeedTime, unit |-> "s"],
     [page |-> FeedPage, id |-> "o020", label |-> LblFanPower, unit |-> "%"] >>

WhitelistKeys == {<<w.page, w.id>> : w \in Range(MonitorWhitelist)}

WhitelistMeta(p, oid) ==
  CHOOSE w \in Range(MonitorWhitelist) : w.page = p /\ w.id = oid

\* key in self.monitor_whitelist
InWhitelist(p, oid) == <<p, oid>> \in WhitelistKeys

\* The text of an object id, used where the id stands in for a label.
IdText(oid) ==
  CASE oid = "o010" -> <<"o","0","1","0">>
    [] oid = "o011" -> <<"o","0","1","1">>
    [] oid = "o020" -> <<"o","0","2","0">>
    [] oid = "o030" -> <<"o","0","3","0">>
    [] oid = "o038" -> <<"o","0","3","8">>
    [] oid = "o044" -> <<"o","0","4","4">>
    [] oid = "o075" -> <<"o","0","7","5">>
    [] oid = "o082" -> <<"o","0","8","2">>
    [] oid = "o089" -> <<"o","0","8","9">>
    [] oid = "o148" -> <<"o","1","4","8">>
    [] oid = "o999" -> <<"o","9","9","9">>

\* Object ids in sorted() order.
OidOrder ==
  <<"o010", "o011", "o020", "o030", "o038", "o044", "o075", "o082", "o089",
    "o148", "o999">>

Sorted(ids) ==
  SelectSeq(OidOrder, LAMBDA o : o \in ids)

\* ------------------------------------------------ build_pages (main.py)

\* An entry definition as parse_page returns it ('n' is never read again).
Entry(oid, label, it, mi, unit, enum) ==
  [id |-> oid, label |-> label, it |-> it, mi |-> mi, unit |-> unit,
   enum |-> enum]

\* Label and unit overridden from the whitelist where it gives them.
Override(p, e) ==
  LET meta == WhitelistMeta(p, e.id)
  IN  [e EXCEPT !.label = IF meta.label # <<>> THEN meta.label ELSE @,
                !.unit = IF meta.unit \notin {None, ""} THEN meta.unit ELSE @]

\* The filter loop over pg['entries'].
RECURSIVE FilterEntriesAll(_, _, _, _)
FilterEntriesAll(p, entries, idset, ro) ==
  IF entries = <<>> THEN <<>>
  ELSE LET e == Head(entries)
           rest == FilterEntriesAll(p, Tail(entries), idset, ro)
       IN  IF e.id \in idset \/ e.it \in {"v", "e"} THEN <<e>> \o rest ELSE rest

RECURSIVE FilterEntries(_, _, _, _)
FilterEntries(p, entries, idset, ro) ==
  IF entries = <<>> THEN <<>>
  ELSE LET e == Head(entries)
           rest == FilterEntries(p, Tail(entries), idset, ro)
           ok == e.id \in idset \/ e.it \in {"v", "e"}
       IN  IF ~ok THEN rest
           ELSE IF ro
                THEN IF InWhitelist(p, e.id)
                     THEN <<Override(p, e)>> \o rest
                     ELSE rest
                ELSE <<e>> \o rest

LangKeyState == "2. 512"

\* The mandatory monitor entries of the home page.
Need ==
  << [id |-> "o044", label |-> LblPower, unit |-> "%", it |-> "v", enum_lg |-> None],
     [id |-> "o075", label |-> LblBoiler, unit |-> "C", it |-> "v", enum_lg |-> None],
     [id |-> "o082", label |-> LblReturn, unit |-> "C", it |-> "v", enum_lg |-> None],
     [id |-> "o089", label |-> LblFlue, unit |-> "C", it |-> "v", enum_lg |-> None],
     [id |-> "o038", label |-> LblState, unit |-> None, it |-> "e", enum_lg |-> LangKeyState],
     [id |-> "o148", label |-> LblFuel, unit |-> None, it |-> "e", enum_lg |-> None] >>

\* The entries synthesized for the ids of Need that present lacks;
\* langState is self.languages["2. 512"], <<>> when the key is missing.
SynthesizedNone(need, present, langState) == <<>>

RECURSIVE Synthesized(_, _, _)
Synthesized(need, present, langState) ==
  IF need = <<>> THEN <<>>
  ELSE LET m == Head(need)
           rest == Synthesized(Tail(need), present, langState)
       IN  IF m.id \in present THEN rest
           ELSE <<Entry(m.id, m.label, m.it, None, m.unit,
                        IF m.enum_lg # None THEN langState ELSE <<>>)>> \o rest

\* The generic entries generated from the presence set.
RECURSIVE Generic(_, _, _)
Generic(p, oids, ro) ==
  IF oids = <<>> THEN <<>>
  ELSE LET oid == Head(oids)
           rest == Generic(p, Tail(oids), ro)
       IN  IF ro
           THEN IF InWhitelist(p, oid)
                THEN <<Entry(oid, WhitelistMeta(p, oid).label, "v", None,
                             WhitelistMeta(p, oid).unit, <<>>)>> \o rest
                ELSE rest
           ELSE <<Entry(oid, IdText(oid), "v", None, None, <<>>)>> \o rest

\* self.pages[p] = pg: a dict keeps the place of a key it already holds.
PutPage(pgs, pg) ==
  IF \E i \in 1..Len(pgs) : pgs[i].page = pg.page
  THEN [i \in 1..Len(pgs) |-> IF pgs[i].page = pg.page THEN pg ELSE pgs[i]]
  ELSE Append(pgs, pg)

LosePages(pgs) == <<>>

\* except Exception: the failure is logged and the loop goes on.
OnPageFailure(pgs) == pgs

\* One iteration of build_pages' loop: dev is what the device answers
\* for page p, [ok, read, entries, ids_ok, ids].
BuildPage(pgs, p, dev, ro, langState) ==
  IF ~dev.ok THEN OnPageFailure(pgs)
  ELSE LET idset == IF dev.ids_ok THEN dev.ids ELSE {}
           filtered == FilterEntries(p, dev.entries, idset, ro)
           present == {filtered[i].id : i \in 1..Len(filtered)}
           ents == IF ro /\ p = HomePage
                   THEN filtered \o Synthesized(Need, present, langState)
                   ELSE filtered
           final == IF ents = <<>> /\ idset # {}
                    THEN Generic(p, Sorted(idset), ro)
                    ELSE ents
       IN  PutPage(pgs, [page |-> p, read |-> dev.read, entries |-> final])

\* ------------------------------------------- publish_discovery (main.py)

\* The entity publish_discovery stores for an entry of a page.
Entity(pg, e) ==
  [page |-> pg.page, read |-> pg.read, id |-> e.id,
   label |-> IF e.label # <<>> THEN e.label ELSE IdText(e.id),
   unit |-> e.unit, it |-> e.it, mi |-> e.mi, enum |-> e.enum]

Key(ent) == <<ent.page, ent.id>>

\* Every (page, entry) pair in the order publish_discovery visits them.
RECURSIVE DiscoveryOrder(_)
DiscoveryOrder(pgs) ==
  IF pgs = <<>> THEN <<>>
  ELSE [i \in 1..Len(Head(pgs).entries) |-> Entity(Head(pgs), Head(pgs).entries[i])]
       \o DiscoveryOrder(Tail(pgs))

\* The number descriptor and its command subscription are published.
NumberWritableAny(ent, ro) == ent.it = "v" /\ ~ro

NumberWritable(ent, ro) == ent.it = "v" /\ ent.mi # None /\ ~ro

\* The select descriptor and its command subscription are published.
SelectWritable(ent, ro) ==
  ent.it = "e" /\ ent.enum # <<>> /\ ent.mi # None /\ ~ro

\* self.entities[ent_id] = {...}
PutEntity(ents, ent) ==
  IF \E i \in 1..Len(ents) : Key(ents[i]) = Key(ent)
  THEN [i \in 1..Len(ents) |-> IF Key(ents[i]) = Key(ent) THEN ent ELSE ents[i]]
  ELSE Append(ents, ent)

\* slugify (discovery.py): lower case, every run of characters other than
\* a-z, 0-9 and _ becomes one _, runs of _ collapse, _ is stripped from both
\* ends, and an empty result is "item".
Uppercase ==
  <<"A","B","C","D","E","F","G","H","I","J","K","L","M",
    "N","O","P","Q","R","S","T","U","V","W","X","Y","Z">>

Lowercase ==
  <<"a","b","c","d","e","f","g","h","i","j","k","l","m",
    "n","o","p","q","r","s","t","u","v","w","x","y","z">>

Lower(c) ==
  IF \E i \in 1..Len(Uppercase) : Uppercase[i] = c
  THEN Lowercase[CHOOSE i \in 1..Len(Uppercase) : Uppercase[i] = c]
  ELSE c

SlugChar(c) == c \in Range(Lowercase) \cup Digits \cup {"_"}

RECURSIVE Collapse(_)
Collapse(s) ==
  IF s = <<>> THEN <<>>
  ELSE LET rest == Collapse(Tail(s))
       IN  IF Head(s) = "_" /\ rest # <<>> /\ Head(rest) = "_" THEN rest
           ELSE <<Head(s)>> \o rest

RECURSIVE StripUnderscores(_)
StripUnderscores(s) ==
  IF s = <<>> THEN <<>>
  ELSE IF Head(s) = "_" THEN StripUnderscores(Tail(s))
  ELSE IF s[Len(s)] = "_" THEN StripUnderscores(SubSeq(s, 1, Len(s) - 1))
  ELSE s

Slugify(text) ==
  LET t == StripUnderscores(Collapse(
             [i \in 1..Len(text) |->
                IF SlugChar(Lower(text[i])) THEN Lower(text[i]) ELSE "_"]))
  IN  IF t = <<>> THEN <<"i","t","e","m">> ELSE t

\* The discovery topic of a descriptor:
\* <prefix>/<component>/benekov_<slug(host)>/<slug(name)>/config.
ConfigTopic(component, name) == <<component, Slugify(name)>>

\* topics(): <base>/<slug(host)>/<page without .cgi>/<object id>/...
PageStem(p) ==
  CASE p = HomePage -> "HMI00001"
    [] p = AlarmPage -> "HMI65000"
    [] p = FeedPage -> "HMI00033"
    [] p = OtherPage -> "HMI00002"

Topic(p, oid) == <<PageStem(p), oid>>

\* ------------------------------------------- translation (main.py)

\* on_message, the branch on ent['it']: whether write_value is called and
\* with which value, for the stripped payload.
WriteTranslateLenient(ent, payload) ==
  IF ent.it = "e" /\ ent.enum # <<>> /\ ~IsDigit(payload)
  THEN [call |-> TRUE,
        value |-> PyStr(Max(ListIndex(ent.enum, payload), 0))]
  ELSE [call |-> ent.it \in {"v", "e"},
        value |-> IF ent.it = "e" /\ ent.enum # <<>>
                  THEN PyStr(DigitsValue(payload)) ELSE payload]

WriteTranslate(ent, payload) ==
  IF ent.it = "v" THEN [call |-> TRUE, value |-> payload]
  ELSE IF ent.it = "e"
  THEN IF ent.enum # <<>>
       THEN IF IsDigit(payload)
            THEN [call |-> TRUE, value |-> PyStr(DigitsValue(payload))]
            ELSE IF ListIndex(ent.enum, payload) >= 0
                 THEN [call |-> TRUE,
                       value |-> PyStr(ListIndex(ent.enum, payload))]
                 ELSE [call |-> FALSE, value |-> <<>>]
       ELSE [call |-> TRUE, value |-> payload]
  ELSE [call |-> FALSE, value |-> <<>>]

\* push_state, "Map enums to text option if available".
ReadTranslateOffByOne(ent, val) ==
  IF ent.it = "e" /\ ent.enum # <<>> /\ PyInt(val).ok
     /\ 0 <= PyInt(val).val /\ PyInt(val).val <= Len(ent.enum)
  THEN ent.enum[Min(PyInt(val).val + 1, Len(ent.enum))]
  ELSE val

ReadTranslate(ent, val) ==
  IF ent.it = "e" /\ ent.enum # <<>>
  THEN LET idx == PyInt(val)
       IN  IF idx.ok /\ 0 <= idx.val /\ idx.val < Len(ent.enum)
           THEN ent.enum[idx.val + 1]
           ELSE val
  ELSE val

\* push_state, the attributes message.
Attrs(ent, val) ==
  [page |-> ent.page, label |-> ent.label, unit |-> ent.unit,
   type |-> ent.it, options |-> ent.enum,
   index |-> IF ent.enum # <<>> /\ PyInt(val).ok
             THEN <<PyInt(val).val>> ELSE <<>>]

\* push_state, by_read: the entities' keys grouped by read endpoint, groups
\* and members in insertion order.
RECURSIVE GroupByRead(_, _)
GroupByRead(ents, acc) ==
  IF ents = <<>> THEN acc
  ELSE LET e == Head(ents)
           acc2 ==
             IF \E i \in 1..Len(acc) : acc[i].read = e.read
             THEN [i \in 1..Len(acc) |->
                     IF acc[i].read = e.read
                     THEN [acc[i] EXCEPT !.keys = Append(@, Key(e))]
                     ELSE acc[i]]
             ELSE Append(acc, [read |-> e.read, keys |-> <<Key(e)>>])
       IN  GroupByRead(Tail(ents), acc2)

EntityOf(ents, k) == CHOOSE e \in Range(ents) : Key(e) = k

Put(f, k, v) == [x \in DOMAIN f \cup {k} |-> IF x = k THEN v ELSE f[x]]

\* ------------------------------------------------------------- the device

FeedRead == "HMI00033Read.cgi"

AlarmRead == "HMI65000Read.cgi"

HomeRead == "HMI00001Read.cgi"

OtherRead == "HMI00002Read.cgi"

LblFeed == <<"F","e","e","d">>

LblFan == <<"F","a","n">>

LblAlarms == <<"A","l","a","r","m","s">>

\* The options of the fan selector: a label made of digits, and two labels
\* that differ in case only.
FanOptions == << <<"1">>, <<"o","n">>, <<"O","n">> >>

NoPage == [ok |-> FALSE, read |-> None, entries |-> <<>>, ids_ok |-> FALSE,
           ids |-> {}]

\* A device whose feed page holds a writable number and a writable
\* selector, and whose alarm page holds a value with no write identifier.
RunDevice ==
  [p \in AllPages |->
     CASE p = FeedPage ->
            [ok |-> TRUE, read |-> FeedRead,
             entries |-> << Entry("o010", LblFeed, "v", "val:10", "s", <<>>),
                            Entry("o020", LblFan, "e", "val:20", None, FanOptions) >>,
             ids_ok |-> TRUE, ids |-> {"o010", "o020"}]
       [] p = AlarmPage ->
            [ok |-> TRUE, read |-> AlarmRead,
             entries |-> << Entry("o011", LblAlarms, "v", None, None, <<>>) >>,
             ids_ok |-> TRUE, ids |-> {"o011"}]
       [] OTHER -> NoPage]

\* What read_values decodes from a stream: object id -> (type, value).  A
\* value is already stripped.
Sample(typ, val) == [typ |-> typ, val |-> val]

NoVals == [o \in {} |-> Sample("v", <<>>)]

\* Streams the read endpoints of that device may answer with.
RunResponses ==
  [ep \in {FeedRead, AlarmRead} |->
     IF ep = FeedRead
     THEN { [o \in {"o010", "o020"} |->
               IF o = "o010" THEN Sample("v", <<"5">>) ELSE Sample("e", <<"1">>)],
            [o \in {"o010", "o020"} |->
               IF o = "o010" THEN Sample("v", <<>>) ELSE Sample("e", <<"3">>)],
            [o \in {"o020"} |-> Sample("e", <<"x">>)] }
     ELSE { [o \in {"o011"} |-> Sample("v", <<"0">>)], NoVals }]

\* Raw command payloads the broker may deliver.
Payloads ==
  { <<"1">>, <<"o","n">>, <<" ","o","n">>, <<"O","N">>, <<"7">>, <<>> }

\* Configured poll intervals (seconds).
ConfiguredIntervals == {-5, 29, 30, 45}

\* ------------------------------------------------------------------ state

Threads == {"main", "mqtt", "loop"}

VARIABLES
  read_only,       \* self.read_only
  configured,      \* the poll_interval option as configured
  poll_interval,   \* self.poll_interval
  include_pages,   \* self.include_pages
  device,          \* what the device answers for each page
  lang_state,      \* self.languages["2. 512"], <<>> when missing
  responses,       \* the streams each read endpoint may answer with
  unsolicited,     \* the broker also delivers messages nobody subscribed to
  pc,              \* each thread's position
  build_i,         \* build_pages: index of the next page
  pages,           \* self.pages, in insertion order
  disc,            \* publish_discovery: the entries still to visit
  entities,        \* self.entities, in insertion order
  configs,         \* retained discovery descriptors published
  subscribed,      \* command topics subscribed
  status,          \* the retained status marker
  retained_state,  \* retained state messages, by entity key
  retained_attr,   \* retained attributes messages, by entity key
  running,         \* self.running
  poll,            \* push_state's locals, per thread
  published,       \* per thread: keys published so far in its poll cycle
  failed,          \* per thread: endpoints whose fetch failed in that cycle
  msg,             \* the message on_message is handling
  write,           \* the write_value call in progress
  outcome,         \* how on_message last ended
  inflight,        \* requests in flight on the device session
  sleep_left,      \* what is left of the poll thread's sleep
  since_poll       \* time since the last poll cycle not triggered by a
                   \* command began, saturating at poll_interval

conf == <<read_only, configured, poll_interval, include_pages, device,
          lang_state, responses, unsolicited>>

bus == <<configs, subscribed, status, retained_state, retained_attr>>

sync == <<build_i, pages, disc, entities>>

cmd == <<msg, write, outcome>>

clock == <<sleep_left, since_poll>>

cycle == <<poll, published, failed>>

vars == <<conf, bus, sync, cmd, clock, cycle, pc, running, inflight>>

NoPoll == [groups |-> <<>>, keys |-> <<>>, vals |-> NoVals]

NoMsg == [topic |-> <<None, None>>, payload |-> <<>>]

NoWrite == [called |-> FALSE, mi |-> None, value |-> <<>>]

InitCommon ==
  /\ poll_interval = ClampInterval(configured)
  /\ pc = [t \in Threads |-> IF t = "main" THEN "connect" ELSE "off"]
  /\ build_i = 1
  /\ pages = <<>>
  /\ disc = <<>>
  /\ entities = <<>>
  /\ configs = {}
  /\ subscribed = {}
  /\ status = None
  /\ retained_state = [k \in {} |-> <<>>]
  /\ retained_attr = [k \in {} |-> <<>>]
  /\ running = TRUE
  /\ poll = [t \in Threads |-> NoPoll]
  /\ published = [t \in Threads |-> {}]
  /\ failed = [t \in Threads |-> {}]
  /\ msg = NoMsg
  /\ write = NoWrite
  /\ outcome = None
  /\ inflight = {}
  /\ sleep_left = 0
  /\ since_poll = poll_interval

\* The bridge as constructed for the feed and alarm pages of RunDevice.
Init ==
  /\ read_only \in BOOLEAN
  /\ configured \in ConfiguredIntervals
  /\ include_pages = IncludePages(<<FeedPage, AlarmPage>>)
  /\ device = RunDevice
  /\ lang_state = <<>>
  /\ responses = RunResponses
  /\ unsolicited = FALSE
  /\ InitCommon

\* ------------------------------------------------------- run: main thread

Goto(t, loc) == pc' = [pc EXCEPT ![t] = loc]

\* connect_mqtt: the will is set, the network thread started and the
\* online marker published.
Connect ==
  /\ pc["main"] = "connect"
  /\ status' = "online"
  /\ pc' = [pc EXCEPT !["main"] = "build", !["mqtt"] = "idle"]
  /\ UNCHANGED <<conf, configs, subscribed, retained_state, retained_attr,
                 sync, cmd, clock, cycle, running, inflight>>

PagesToBuild == IF include_pages # <<>> THEN include_pages ELSE <<HomePage>>

\* build_pages: one iteration of the loop over the pages; after the last
\* one publish_discovery starts.
BuildStep ==
  /\ pc["main"] = "build"
  /\ LET p == PagesToBuild[build_i]
         pgs == BuildPage(pages, p, device[p], read_only, lang_state)
         last == build_i = Len(PagesToBuild)
     IN  /\ pages' = pgs
         /\ build_i' = build_i + 1
         /\ disc' = IF last THEN DiscoveryOrder(pgs) ELSE disc
         /\ IF ~last THEN UNCHANGED pc
            ELSE IF DiscoveryOrder(pgs) = <<>> THEN Goto("main", "push_state")
            ELSE Goto("main", "discover")
  /\ UNCHANGED <<conf, bus, entities, cmd, clock, cycle, running, inflight>>

Descriptor(component, ent) ==
  [component |-> component, key |-> Key(ent), label |-> ent.label]

DiscSkipSensor ==
  /\ pc["main"] = "discover"
  /\ LET ent == Head(disc)
         num == NumberWritable(ent, read_only)
         sel == SelectWritable(ent, read_only)
     IN  /\ configs' = configs
                \cup (IF num THEN {Descriptor("number", ent)} ELSE {})
                \cup (IF sel THEN {Descriptor("select", ent)} ELSE {})
         /\ subscribed' = subscribed
                \cup (IF num \/ sel THEN {Topic(ent.page, ent.id)} ELSE {})
  /\ Goto("main", "discover_put")
  /\ UNCHANGED <<conf, status, retained_state, retained_attr, sync, cmd,
                 clock, cycle, running, inflight>>

\* publish_discovery, one entry: the sensor descriptor, then the number or
\* select descriptor with its command subscription.
DiscPublish ==
  /\ pc["main"] = "discover"
  /\ LET ent == Head(disc)
         num == NumberWritable(ent, read_only)
         sel == SelectWritable(ent, read_only)
     IN  /\ configs' = configs \cup {Descriptor("sensor", ent)}
                \cup (IF num THEN {Descriptor("number", ent)} ELSE {})
                \cup (IF sel THEN {Descriptor("select", ent)} ELSE {})
         /\ subscribed' = subscribed
                \cup (IF num \/ sel THEN {Topic(ent.page, ent.id)} ELSE {})
  /\ Goto("main", "discover_put")
  /\ UNCHANGED <<conf, status, retained_state, retained_attr, sync, cmd,
                 clock, cycle, running, inflight>>

\* Thread t is in a loop over self.entities.items(): on_message looking for
\* the entity addressed, or push_state building by_read.
Iterating(t, ro) ==
  \/ pc[t] = "on_message" /\ ~ro
  \/ pc[t] = "push_state"

\* What an insertion of ent does to the network thread: nothing, or, when the
\* thread is iterating and the dict grows, "dictionary changed size during
\* iteration" is raised in the callback, which the client swallows ("idle")
\* or lets end the thread ("dead").
MapFaults(ent) ==
  IF Iterating("mqtt", read_only)
     /\ \A i \in 1..Len(entities) : Key(entities[i]) # Key(ent)
  THEN {None, "idle", "dead"}
  ELSE {None}

\* publish_discovery, the same entry: self.entities[ent_id] = {...}.
DiscInsert ==
  /\ pc["main"] = "discover_put"
  /\ entities' = PutEntity(entities, Head(disc))
  /\ disc' = Tail(disc)
  /\ \E fault \in MapFaults(Head(disc)) :
       /\ pc' = [pc EXCEPT
                   !["main"] = IF Tail(disc) = <<>> THEN "push_state"
                               ELSE "discover",
                   !["mqtt"] = IF fault = None THEN @ ELSE fault]
       /\ msg' = IF fault = None THEN msg ELSE NoMsg
       /\ outcome' = IF fault = None THEN outcome ELSE "error"
  /\ UNCHANGED <<conf, bus, build_i, pages, write, clock, cycle, running,
                 inflight>>

\* The poll thread is started and the signal handlers installed.
StartLoop ==
  /\ pc["main"] = "start_loop"
  /\ pc' = [pc EXCEPT !["main"] = "wait", !["loop"] = "loop_check"]
  /\ UNCHANGED <<conf, bus, sync, cmd, clock, cycle, running, inflight>>

\* -------------------------------------------------------------- push_state

InPoll(t) == pc[t] \in {"ps_loop", "ps_fetch", "ps_ents"}

\* Where push_state returns to.
AfterPoll(t) ==
  CASE t = "main" -> "start_loop"
    [] t = "mqtt" -> "idle"
    [] t = "loop" -> "sleep"

Request(t, kind, target) == [thread |-> t, kind |-> kind, target |-> target]

\* The loop over by_read goes on with the groups that are left.
Continue(t, groups) ==
  /\ poll' = [poll EXCEPT ![t] = [groups |-> groups, keys |-> <<>>,
                                  vals |-> NoVals]]
  /\ Goto(t, "ps_loop")

\* push_state is entered: the entities are grouped by read endpoint.
PollBegin(t) ==
  /\ pc[t] = "push_state"
  /\ published' = [published EXCEPT ![t] = {}]
  /\ failed' = [failed EXCEPT ![t] = {}]
  /\ since_poll' = IF t = "mqtt" THEN since_poll ELSE 0
  /\ Continue(t, GroupByRead(entities, <<>>))
  /\ UNCHANGED <<conf, bus, sync, cmd, sleep_left, running, inflight>>

\* The next group's fetch is issued on the device session.
PollFetch(t) ==
  /\ pc[t] = "ps_loop"
  /\ poll[t].groups # <<>>
  /\ inflight' = inflight \cup {Request(t, "read", Head(poll[t].groups).read)}
  /\ Goto(t, "ps_fetch")
  /\ UNCHANGED <<conf, bus, sync, cmd, clock, cycle, running>>

\* read_values returns the decoded stream.
FetchOk(t) ==
  /\ pc[t] = "ps_fetch"
  /\ \E r \in responses[Head(poll[t].groups).read] :
       poll' = [poll EXCEPT ![t].vals = r, ![t].keys = Head(poll[t].groups).keys]
  /\ inflight' = inflight \ {Request(t, "read", Head(poll[t].groups).read)}
  /\ Goto(t, "ps_ents")
  /\ UNCHANGED <<conf, bus, sync, cmd, clock, published, failed, running>>

\* "read failed ...: continue": the groups left after a failed fetch.
RetryGroup(groups) == groups

AbandonCycle(groups) == <<>>

AfterFailure(groups) == Tail(groups)

\* read_values raises: the failure is logged and the group skipped.
FetchFail(t) ==
  /\ pc[t] = "ps_fetch"
  /\ failed' = [failed EXCEPT ![t] = @ \cup {Head(poll[t].groups).read}]
  /\ inflight' = inflight \ {Request(t, "read", Head(poll[t].groups).read)}
  /\ Continue(t, AfterFailure(poll[t].groups))
  /\ UNCHANGED <<conf, bus, sync, cmd, clock, published, running>>

\* One entity of the group: skipped when the stream lacks its id, else its
\* state and attributes are published retained.
PublishEntBlank(t) ==
  /\ pc[t] = "ps_ents"
  /\ LET k == Head(poll[t].keys)
         ent == EntityOf(entities, k)
         vals == poll[t].vals
         val == IF ent.id \in DOMAIN vals THEN vals[ent.id].val ELSE <<>>
     IN  /\ retained_state' = Put(retained_state, k, ReadTranslate(ent, val))
         /\ retained_attr' = Put(retained_attr, k, Attrs(ent, val))
         /\ published' = [published EXCEPT ![t] = @ \cup {k}]
         /\ IF Tail(poll[t].keys) # <<>>
            THEN /\ poll' = [poll EXCEPT ![t].keys = Tail(@)]
                 /\ UNCHANGED pc
            ELSE Continue(t, Tail(poll[t].groups))
  /\ UNCHANGED <<conf, configs, subscribed, status, sync, cmd, clock, failed,
                 running, inflight>>

PublishEnt(t) ==
  /\ pc[t] = "ps_ents"
  /\ LET k == Head(poll[t].keys)
         ent == EntityOf(entities, k)
         vals == poll[t].vals
     IN  /\ IF ent.id \in DOMAIN vals
            THEN /\ retained_state' =
                      Put(retained_state, k, ReadTranslate(ent, vals[ent.id].val))
                 /\ retained_attr' =
                      Put(retained_attr, k, Attrs(ent, vals[ent.id].val))
                 /\ published' = [published EXCEPT ![t] = @ \cup {k}]
            ELSE UNCHANGED <<retained_state, retained_attr, published>>
         /\ IF Tail(poll[t].keys) # <<>>
            THEN /\ poll' = [poll EXCEPT ![t].keys = Tail(@)]
                 /\ UNCHANGED pc
            ELSE Continue(t, Tail(poll[t].groups))
  /\ UNCHANGED <<conf, configs, subscribed, status, sync, cmd, clock, failed,
                 running, inflight>>

\* No group is left: push_state returns, and the poll thread goes to sleep
\* for poll_interval.
PollReturn(t) ==
  /\ pc[t] = "ps_loop"
  /\ poll[t].groups = <<>>
  /\ Goto(t, AfterPoll(t))
  /\ published' = [published EXCEPT ![t] = {}]
  /\ failed' = [failed EXCEPT ![t] = {}]
  /\ sleep_left' = IF t = "loop" THEN poll_interval ELSE sleep_left
  /\ UNCHANGED <<conf, bus, sync, cmd, since_poll, poll, running, inflight>>

\* ------------------------------------------------------------- on_message

\* Command topics a message may be addressed to.
CommandTopics ==
  {Topic(FeedPage, "o010"), Topic(FeedPage, "o020"), Topic(AlarmPage, "o011"),
   Topic(OtherPage, "o999")}

\* The broker hands a message to the network thread, which is free.
Deliver(topic, payload) ==
  /\ pc["mqtt"] = "idle"
  /\ unsolicited \/ topic \in subscribed
  /\ msg' = [topic |-> topic, payload |-> payload]
  /\ outcome' = None
  /\ Goto("mqtt", "on_message")
  /\ UNCHANGED <<conf, bus, sync, write, clock, cycle, running, inflight>>

\* "Ignore commands in monitor profile".
IgnoreNothing(ro) == FALSE

IgnoreCommands(ro) == ro

\* The entities whose command topic is the message's, in dict order.
Addressed(ents, topic) ==
  SelectSeq(ents, LAMBDA e : Topic(e.page, e.id) = topic)

\* on_message up to the call of write_value: the message is dropped (monitor
\* profile, no entity, no write identifier, payload not translatable) or
\* the write is issued on the device session.
OnMessage ==
  /\ pc["mqtt"] = "on_message"
  /\ LET payload == Strip(msg.payload)
         found == Addressed(entities, msg.topic)
         ent == Head(found)
         tr == WriteTranslate(ent, payload)
         drop == CASE IgnoreCommands(read_only) -> "ignored"
                   [] found = <<>> -> "no entity"
                   [] ent.mi = None -> "no write MI"
                   [] ~tr.call -> "rejected"
                   [] OTHER -> None
     IN  IF drop # None
         THEN /\ Goto("mqtt", "idle")
              /\ msg' = NoMsg
              /\ outcome' = drop
              /\ UNCHANGED <<write, inflight>>
         ELSE /\ write' = [called |-> TRUE, mi |-> ent.mi, value |-> tr.value]
              /\ inflight' = inflight \cup {Request("mqtt", "write", ent.mi)}
              /\ Goto("mqtt", "writing")
              /\ UNCHANGED <<msg, outcome>>
  /\ UNCHANGED <<conf, bus, sync, clock, cycle, running>>

WriteDoneThenPoll(ok) ==
  /\ pc["mqtt"] = "writing"
  /\ inflight' = inflight \ {Request("mqtt", "write", write.mi)}
  /\ msg' = NoMsg
  /\ write' = NoWrite
  /\ outcome' = IF ok THEN "write ok" ELSE "write failed"
  /\ Goto("mqtt", "settle")
  /\ UNCHANGED <<conf, bus, sync, clock, cycle, running>>

\* write_value returns: True on HTTP 200, False on any exception.  After a
\* success the handler sleeps for the settle delay.
WriteDone(ok) ==
  /\ pc["mqtt"] = "writing"
  /\ inflight' = inflight \ {Request("mqtt", "write", write.mi)}
  /\ msg' = NoMsg
  /\ write' = NoWrite
  /\ outcome' = IF ok THEN "write ok" ELSE "write failed"
  /\ IF ok THEN Goto("mqtt", "settle") ELSE Goto("mqtt", "idle")
  /\ UNCHANGED <<conf, bus, sync, clock, cycle, running>>

\* time.sleep(0.5) returns and self.push_state() is called.
Settle ==
  /\ pc["mqtt"] = "settle"
  /\ Goto("mqtt", "push_state")
  /\ UNCHANGED <<conf, bus, sync, cmd, clock, cycle, running, inflight>>

\* ---------------------------------------------------------------- run.loop

\* while self.running:
LoopCheck ==
  /\ pc["loop"] = "loop_check"
  /\ IF running THEN Goto("loop", "push_state") ELSE Goto("loop", "exit")
  /\ UNCHANGED <<conf, bus, sync, cmd, clock, cycle, running, inflight>>

\* time.sleep(self.poll_interval) returns.
Wake ==
  /\ pc["loop"] = "sleep"
  /\ sleep_left = 0
  /\ Goto("loop", "loop_check")
  /\ UNCHANGED <<conf, bus, sync, cmd, clock, cycle, running, inflight>>

\* Time passes, as much as one poll interval: a sleep that was running is
\* over, and the time since the last poll saturates.
Tick ==
  /\ pc["main"] # "connect"
  /\ since_poll < poll_interval \/ (pc["loop"] = "sleep" /\ sleep_left > 0)
  /\ since_poll' = Min(since_poll + poll_interval, poll_interval)
  /\ sleep_left' = IF pc["loop"] = "sleep"
                   THEN Max(sleep_left - poll_interval, 0) ELSE sleep_left
  /\ UNCHANGED <<conf, bus, sync, cmd, cycle, pc, running, inflight>>

\* ------------------------------------------------------------ specification

Next ==
  \/ Connect
  \/ BuildStep
  \/ DiscPublish
  \/ DiscInsert
  \/ StartLoop
  \/ \E t \in Threads : PollBegin(t)
  \/ \E t \in Threads : PollFetch(t)
  \/ \E t \in Threads : FetchOk(t)
  \/ \E t \in Threads : FetchFail(t)
  \/ \E t \in Threads : PublishEnt(t)
  \/ \E t \in Threads : PollReturn(t)
  \/ \E topic \in CommandTopics, payload \in Payloads : Deliver(topic, payload)
  \/ OnMessage
  \/ \E ok \in BOOLEAN : WriteDone(ok)
  \/ Settle
  \/ LoopCheck
  \/ Wake
  \/ Tick

Spec == Init /\ [][Next]_vars

\* The same bridge under a broker that also delivers messages on command
\* topics nobody subscribed to.
InitAny ==
  /\ read_only \in BOOLEAN
  /\ configured \in ConfiguredIntervals
  /\ include_pages = IncludePages(<<FeedPage, AlarmPage>>)
  /\ device = RunDevice
  /\ lang_state = <<>>
  /\ responses = RunResponses
  /\ unsolicited = TRUE
  /\ InitCommon

SpecAny == InitAny /\ [][Next]_vars

\* -------------------------------------------- synchronization on its own

LblShort == <<"P","w","r">>

EntryChoices(p) ==
  CASE p = HomePage ->
         { <<>>,
           << Entry("o044", LblShort, "v", None, "%", <<>>) >>,
           << Entry("o999", <<>>, "v", "val:99", None, <<>>) >>,
           << Entry("o044", LblShort, "v", None, "%", <<>>),
              Entry("o999", <<>>, "v", "val:99", None, <<>>) >>,
           << Entry("o038", LblShort, "e", "val:38", None, FanOptions) >> }
    [] p = AlarmPage ->
         { <<>>, << Entry("o011", LblAlarms, "v", None, None, <<>>) >> }
    [] p = FeedPage ->
         { <<>>,
           << Entry("o010", LblFeed, "v", "val:10", "s", <<>>),
              Entry("o030", LblFan, "e", "val:30", None, FanOptions) >> }
    [] p = OtherPage ->
         { <<>>, << Entry("o999", <<>>, "v", "val:99", None, <<>>) >> }

IdChoices(p) ==
  CASE p = HomePage -> { {}, {"o044", "o999"}, {"o075"} }
    [] p = AlarmPage -> { {}, {"o011", "o999"} }
    [] p = FeedPage -> { {}, {"o010", "o030"} }
    [] p = OtherPage -> { {}, {"o999"} }

ReadOf(p) ==
  CASE p = HomePage -> HomeRead
    [] p = AlarmPage -> AlarmRead
    [] p = FeedPage -> FeedRead
    [] p = OtherPage -> OtherRead

\* What a device may answer for page p: the page fetch fails, or it parses
\* into some entries and the presence scan fails or returns some ids.
PageAnswers(p) ==
  {NoPage}
  \cup { [ok |-> TRUE, read |-> ReadOf(p), entries |-> es, ids_ok |-> TRUE,
          ids |-> ids] : es \in EntryChoices(p), ids \in IdChoices(p) }
  \cup { [ok |-> TRUE, read |-> ReadOf(p), entries |-> es, ids_ok |-> FALSE,
          ids |-> {}] : es \in EntryChoices(p) }

\* The page lists configured: none (the default pages) or two pages.
ConfiguredPages == { <<>>, <<OtherPage, FeedPage>> }

\* Only the pages that are fetched need an answer.
AnswersIn(cp, p) ==
  IF p \in Range(IncludePages(cp)) THEN PageAnswers(p) ELSE {NoPage}

InitSync ==
  /\ read_only \in BOOLEAN
  /\ configured = MinPollInterval
  /\ \E cp \in ConfiguredPages :
       /\ include_pages = IncludePages(cp)
       /\ \E h \in AnswersIn(cp, HomePage), a \in AnswersIn(cp, AlarmPage),
             f \in AnswersIn(cp, FeedPage), o \in AnswersIn(cp, OtherPage) :
            device = [p \in AllPages |->
                        CASE p = HomePage -> h
                          [] p = AlarmPage -> a
                          [] p = FeedPage -> f
                          [] p = OtherPage -> o]
  /\ lang_state \in {<<>>, FanOptions}
  /\ responses = RunResponses
  /\ unsolicited = FALSE
  /\ InitCommon

\* run up to the end of publish_discovery.
NextSync ==
  \/ Connect
  \/ BuildStep
  \/ DiscPublish
  \/ DiscInsert

SpecSync == InitSync /\ [][NextSync]_vars

\* ------------------------------------------------ the initial poll alone

\* Raw values a stream may carry for the selector.
RawValues ==
  { <<"0">>, <<"1">>, <<"2">>, <<"3">>, <<"0","1">>, <<"+","2">>, <<"-","1">>,
    <<"1","2">>, <<"x">>, <<"1",".","5">>, <<"o","n">>, <<>> }

ReadDevice(opts) ==
  [p \in AllPages |->
     IF p = FeedPage
     THEN [ok |-> TRUE, read |-> FeedRead,
           entries |-> << Entry("o010", LblFeed, "v", "val:10", "s", <<>>),
                          Entry("o020", LblFan, "e", "val:20", None, opts) >>,
           ids_ok |-> TRUE, ids |-> {"o010", "o020"}]
     ELSE NoPage]

WideResponses ==
  [ep \in {FeedRead} |->
     { [o \in {"o010", "o020"} |-> Sample("e", v)] : v \in RawValues }]

InitRead ==
  /\ read_only \in BOOLEAN
  /\ configured = MinPollInterval
  /\ include_pages = IncludePages(<<FeedPage>>)
  /\ \E opts \in {FanOptions, <<LblFan>>, <<>>} : device = ReadDevice(opts)
  /\ lang_state = <<>>
  /\ responses = WideResponses
  /\ unsolicited = FALSE
  /\ InitCommon

\* run up to the end of the initial poll.
NextRead ==
  \/ NextSync
  \/ PollBegin("main")
  \/ PollFetch("main")
  \/ FetchOk("main")
  \/ FetchFail("main")
  \/ PublishEnt("main")
  \/ PollReturn("main")

SpecRead == InitRead /\ [][NextRead]_vars

\* ------------------------------------------------------------ termination

\* A termination signal reaches the main thread in its wait loop, where the
\* handlers are installed: handle_stop starts with self.running = False.
Signal ==
  /\ pc["main"] = "wait"
  /\ running' = FALSE
  /\ Goto("main", "stop_publish")
  /\ UNCHANGED <<conf, bus, sync, cmd, clock, cycle, inflight>>

StopSilent ==
  /\ pc["main"] = "stop_publish"
  /\ Goto("main", "stop_loop")
  /\ UNCHANGED <<conf, bus, sync, cmd, clock, cycle, running, inflight>>

\* handle_stop publishes the retained status "offline".
StopOffline ==
  /\ pc["main"] = "stop_publish"
  /\ status' = "offline"
  /\ Goto("main", "stop_loop")
  /\ UNCHANGED <<conf, configs, subscribed, retained_state, retained_attr,
                 sync, cmd, clock, cycle, running, inflight>>

\* self.mqtt.loop_stop() joins the network thread, which ends once the
\* callback it is running has returned.
StopTransport ==
  /\ pc["main"] = "stop_loop"
  /\ pc["mqtt"] \in {"idle", "dead"}
  /\ pc' = [pc EXCEPT !["main"] = "stop_exit", !["mqtt"] = "stopped"]
  /\ UNCHANGED <<conf, bus, sync, cmd, clock, cycle, running, inflight>>

\* self.mqtt.disconnect() and sys.exit(0): the process ends, and the daemon
\* poll thread ends with it wherever it is.
Exit ==
  /\ pc["main"] = "stop_exit"
  /\ pc' = [pc EXCEPT !["main"] = "stopped", !["loop"] = "killed"]
  /\ inflight' = {}
  /\ UNCHANGED <<conf, bus, sync, cmd, clock, cycle, running>>

\* The bridge at the minimum interval, with termination signals.
InitStop ==
  /\ read_only \in BOOLEAN
  /\ configured = MinPollInterval
  /\ include_pages = IncludePages(<<FeedPage, AlarmPage>>)
  /\ device = RunDevice
  /\ lang_state = <<>>
  /\ responses = RunResponses
  /\ unsolicited = FALSE
  /\ InitCommon

NextStop ==
  \/ Next
  \/ Signal
  \/ StopOffline
  \/ StopTransport
  \/ Exit

SpecStop == InitStop /\ [][NextStop]_vars

\* ---------------------------------------------------------------- progress

\* A thread inside push_state goes on: the fetch returns, with a stream or
\* with an exception (the session's requests time out after 10 s).
PollSteps(t) ==
  \/ PollBegin(t)
  \/ PollFetch(t)
  \/ FetchOk(t)
  \/ FetchFail(t)
  \/ PublishEnt(t)
  \/ PollReturn(t)

\* run on the main thread, up to its wait loop.
MainSteps ==
  \/ Connect
  \/ BuildStep
  \/ DiscPublish
  \/ DiscInsert
  \/ PollSteps("main")
  \/ StartLoop

\* run.loop on the poll thread.
LoopSteps ==
  \/ LoopCheck
  \/ PollSteps("loop")
  \/ Wake

\* Every thread that can take a step gets to take one, and time passes.
Fairness ==
  /\ WF_vars(MainSteps)
  /\ WF_vars(LoopSteps)
  /\ WF_vars(Tick)

\* The bridge left to itself: no command and no termination signal arrives.
NextLive ==
  \/ MainSteps
  \/ LoopSteps
  \/ Tick

SpecLive == InitStop /\ [][NextLive]_vars /\ Fairness

\* ------------------------------------------------------------ properties

\* C1: two poll cycles never execute at the same time: the cycle the command
\* handler starts after a successful write never overlaps a cycle of the
\* interval loop or the initial poll of run.
C1_PollCyclesExclusive ==
  ~(InPoll("mqtt") /\ (InPoll("loop") \/ InPoll("main")))

\* C2: the device session carries at most one request at a time: no write
\* of the command handler is in flight while a read of a poll cycle on
\* another thread is in flight.
C2_SessionSerialized ==
  \A w \in inflight, r \in inflight :
    (w.kind = "write" /\ r.kind = "read") => w.thread = r.thread

\* C3: under the read-only policy, whatever messages arrive, write_value is
\* never called, no command topic is subscribed and no number or select
\* descriptor is published.
C3_MonitorNeverWrites ==
  read_only =>
    /\ ~write.called
    /\ \A r \in inflight : r.kind # "write"
    /\ pc["mqtt"] \notin {"writing", "settle"}
    /\ subscribed = {}
    /\ \A c \in configs : c.component = "sensor"

\* A command for a discovered entity with a write identifier arrived under
\* the read-only policy and was dropped.
C3_Witness ==
  /\ read_only
  /\ outcome = "ignored"
  /\ \E i \in 1..Len(entities) : entities[i].mi # None

\* C4: a poll cycle whose fetch of a read endpoint failed publishes no state
\* and no attributes for any entity bound to that endpoint.
C4_FailedFetchPublishesNothing ==
  \A t \in Threads :
    \A k \in published[t] : EntityOf(entities, k).read \notin failed[t]

\* A cycle lost one endpoint whose entity has a retained state from an
\* earlier cycle, and went on to publish the entities of another endpoint.
C4_Witness ==
  \E t \in Threads :
    /\ failed[t] # {}
    /\ published[t] # {}
    /\ \E k \in DOMAIN retained_state :
         EntityOf(entities, k).read \in failed[t]

\* The command being handled addresses a writable enumeration entity with an
\* option list, and text is neither a digit string nor one of the options.
Untranslatable(text) ==
  LET found == Addressed(entities, msg.topic)
  IN  /\ ~read_only
      /\ found # <<>>
      /\ Head(found).it = "e"
      /\ Head(found).mi # None
      /\ Head(found).enum # <<>>
      /\ ~IsDigit(text)
      /\ text \notin Range(Head(found).enum)

\* The handler returns without a write, a poll cycle or a publication.
Rejected ==
  /\ pc'["mqtt"] \in {"idle", "dead"}
  /\ ~write'.called
  /\ inflight' = inflight
  /\ UNCHANGED <<retained_state, retained_attr, published, poll>>

\* C5, as stated: for a command addressed to a writable enumeration entity
\* with an option list, a payload that is neither a digit string nor equal to
\* an option leads to no write, no poll cycle and no publication.
C5_RawPayloadRejected ==
  [][(pc["mqtt"] = "on_message" /\ pc'["mqtt"] # "on_message"
      /\ Untranslatable(msg.payload)) => Rejected]_vars

\* C5, amended: the same, for the payload with surrounding whitespace
\* removed, which is the text the handler translates.
C5_StrippedPayloadRejected ==
  [][(pc["mqtt"] = "on_message" /\ pc'["mqtt"] # "on_message"
      /\ Untranslatable(Strip(msg.payload))) => Rejected]_vars

\* A command was rejected because its payload did not translate.
C5_Witness ==
  /\ outcome = "rejected"
  /\ pc["mqtt"] = "idle"
  /\ ~write.called

\* C6: for an enumeration entity with an option list and a payload exactly
\* equal to one of its labels, the value written is the decimal string of
\* that label's index, also when the label consists only of digits.
C6_LabelWritesIndex ==
  (pc["mqtt"] = "writing" /\ Addressed(entities, msg.topic) # <<>>) =>
    LET ent == Head(Addressed(entities, msg.topic))
    IN  (ent.it = "e" /\ ent.enum # <<>> /\ msg.payload \in Range(ent.enum))
          => write.value = PyStr(ListIndex(ent.enum, msg.payload))

\* The state a cycle must publish for an enumeration entity and raw value v.
ExpectedState(ent, v) ==
  IF \E i \in 0..(Len(ent.enum) - 1) : PyInt(v).ok /\ PyInt(v).val = i
  THEN ent.enum[PyInt(v).val + 1]
  ELSE v

\* C7: for an enumeration entity with options opts and raw value v, a poll
\* cycle publishes opts[i] when v parses as an integer i in 0..len(opts)-1
\* and v unchanged otherwise, and the cycle goes on.
C7_ReadTranslation ==
  [][\A t \in Threads :
       (pc[t] = "ps_ents" /\ poll'[t] # poll[t]) =>
         LET k == Head(poll[t].keys)
             ent == EntityOf(entities, k)
             vals == poll[t].vals
         IN  (ent.it = "e" /\ ent.enum # <<>> /\ ent.id \in DOMAIN vals) =>
               /\ k \in DOMAIN retained_state'
               /\ retained_state'[k] = ExpectedState(ent, vals[ent.id].val)
               /\ pc'[t] \in {"ps_ents", "ps_loop"}]_vars

\* The raw value 1 was published as the second option of the selector.
C7_Witness ==
  \E k \in DOMAIN retained_state :
    LET ent == EntityOf(entities, k)
    IN  /\ Len(ent.enum) >= 2
        /\ retained_attr[k].index = <<1>>
        /\ retained_state[k] = ent.enum[2]

\* C8: under the read-only policy every entity of a built page and every
\* synchronized entity is whitelisted, whether it was parsed, synthesized
\* for the home page or generated from the presence set.
C8_OnlyWhitelisted ==
  read_only =>
    /\ \A i \in 1..Len(entities) : InWhitelist(entities[i].page, entities[i].id)
    /\ \A i \in 1..Len(pages) : \A j \in 1..Len(pages[i].entries) :
         InWhitelist(pages[i].page, pages[i].entries[j].id)

\* Discovery is over under the read-only policy; the home page carried a
\* parsed entry and a live id that are not whitelisted next to parsed
\* whitelisted ones, and the alarm page was built from its presence set.
C8_Witness ==
  /\ read_only
  /\ pc["main"] = "push_state"
  /\ device[HomePage].ok /\ device[AlarmPage].ok
  /\ "o999" \in device[HomePage].ids
  /\ \E j \in 1..Len(device[HomePage].entries) :
       device[HomePage].entries[j].id = "o999"
  /\ device[AlarmPage].entries = <<>>
  /\ "o999" \in device[AlarmPage].ids
  /\ \E i \in 1..Len(entities) : Key(entities[i]) = <<HomePage, "o044">>
  /\ \E i \in 1..Len(entities) : Key(entities[i]) = <<HomePage, "o075">>
  /\ \E i \in 1..Len(entities) : Key(entities[i]) = <<AlarmPage, "o011">>

\* C9: the interval the poll loop uses is max(c, 30) for the configured
\* value c, and is never below 30 seconds.
C9_IntervalClamped ==
  /\ poll_interval = Max(configured, 30)
  /\ poll_interval >= 30
  /\ pc["loop"] = "sleep" => sleep_left \in {0, Max(configured, 30)}

\* The loop sleeps for 30 seconds with a configured value below 30.
C9_Witness ==
  /\ configured < 30
  /\ pc["loop"] = "sleep"
  /\ sleep_left = 30

\* C10: after the one immediate poll, every poll cycle not triggered by a
\* command starts no sooner than one poll interval after the start of the
\* previous such cycle.
C10_IntervalFloor ==
  [][\A t \in {"main", "loop"} :
       (pc[t] = "push_state" /\ pc'[t] # "push_state")
         => since_poll >= poll_interval]_vars

\* C11: a poll cycle in progress when a termination signal arrives runs to
\* completion before the process stops: no thread is stopped with endpoint
\* groups of its cycle left to process.
C11_CycleCompletes ==
  pc["main"] = "stopped" => \A t \in Threads : poll[t].groups = <<>>

\* C12: on a termination signal the retained offline marker is published,
\* and before the transport is stopped and disconnected; once the handler
\* has run the poll loop starts no further cycle.
C12_OfflineThenStop ==
  /\ pc["main"] \in {"stop_loop", "stop_exit", "stopped"} => status = "offline"
  /\ pc["mqtt"] = "stopped" => status = "offline"
  /\ pc["main"] = "stopped" =>
       /\ pc["mqtt"] = "stopped"
       /\ pc["loop"] \notin {"loop_check", "push_state", "sleep"}
       /\ ~InPoll("loop")

\* The handler has run to its end after a signal.
C12_Witness ==
  /\ pc["main"] = "stopped"
  /\ ~running
  /\ status = "offline"

\* C13: the entity map is never iterated by one thread while another thread
\* inserts into it: the command handler and the poll cycle it triggers do
\* not loop over the map while publish_discovery is adding an entity.
C13_MapNotIteratedDuringInsert ==
  ~(pc["main"] = "discover_put" /\ Iterating("mqtt", read_only))

\* C14: a command whose write succeeds triggers exactly one poll cycle, after
\* the settle delay, and the handler returns when that cycle is over; a
\* command whose write fails triggers no poll cycle and publishes nothing.
C14_OneExtraPoll ==
  [][/\ (pc["mqtt"] = "writing" /\ outcome' = "write ok")
          => pc'["mqtt"] = "settle"
     /\ (pc["mqtt"] = "settle" /\ pc'["mqtt"] # "settle")
          => pc'["mqtt"] = "push_state"
     /\ (pc["mqtt"] # "push_state" /\ pc'["mqtt"] = "push_state")
          => (pc["mqtt"] = "settle" /\ outcome = "write ok")
     /\ (InPoll("mqtt") /\ pc'["mqtt"] \notin {"ps_loop", "ps_fetch", "ps_ents"})
          => pc'["mqtt"] \in {"idle", "stopped"}
     /\ (pc["mqtt"] = "writing" /\ outcome' = "write failed")
          => /\ pc'["mqtt"] = "idle"
             /\ UNCHANGED <<retained_state, retained_attr, published, poll>>
    ]_vars

\* The poll cycle a successful write triggered is publishing.
C14_Witness ==
  /\ InPoll("mqtt")
  /\ outcome = "write ok"
  /\ published["mqtt"] # {}

\* C15: in a poll cycle whose fetch succeeded, an entity whose object id is
\* not in the decoded values gets no state and no attributes message, and
\* the cycle goes on; the entities that have a value are published.
C15_MissingValueSkipped ==
  [][\A t \in Threads :
       (pc[t] = "ps_ents" /\ poll'[t] # poll[t]) =>
         LET k == Head(poll[t].keys)
             ent == EntityOf(entities, k)
         IN  /\ pc'[t] \in {"ps_ents", "ps_loop"}
             /\ IF ent.id \in DOMAIN poll[t].vals
                THEN /\ k \in published'[t]
                     /\ k \in DOMAIN retained_state'
                     /\ k \in DOMAIN retained_attr'
                ELSE UNCHANGED <<retained_state, retained_attr, published>>
    ]_vars

\* A cycle fetched the feed endpoint, skipped o010, which had no value, and
\* published o020 of the same group.
C15_Witness ==
  \E t \in Threads :
    /\ InPoll(t)
    /\ FeedRead \notin failed[t]
    /\ <<FeedPage, "o020">> \in published[t]
    /\ <<FeedPage, "o010">> \notin published[t]

\* C16: an entity with no write identifier is state-only: no number or select
\* descriptor is published for it, its command topic is never subscribed,
\* and a message on its command topic never leads to a write.
C16_NoWriteIdStateOnly ==
  \A i \in 1..Len(pages) : \A j \in 1..Len(pages[i].entries) :
    LET ent == Entity(pages[i], pages[i].entries[j])
    IN  ent.mi = None =>
          /\ \A c \in configs : c.key = Key(ent) => c.component = "sensor"
          /\ Topic(ent.page, ent.id) \notin subscribed
          /\ msg.topic = Topic(ent.page, ent.id) =>
               (~write.called /\ pc["mqtt"] \notin {"writing", "settle"})

\* A command arrived for a discovered entity with no write identifier while
\* writing is allowed, and was dropped.
C16_Witness ==
  /\ ~read_only
  /\ outcome = "no write MI"
  /\ pc["mqtt"] = "idle"

\* The ids the home page must carry under the read-only policy.
RequiredIds == {"o044", "o075", "o082", "o089", "o038", "o148"}

\* C17: under the read-only policy, when HMI00001.cgi is configured and its
\* fetch succeeds, the page's entries after build_pages hold each of the six
\* required ids exactly once, whatever was parsed and whether or not the
\* presence set could be fetched.
C17_HomePageComplete ==
  (/\ read_only
   /\ pc["main"] \notin {"connect", "build"}
   /\ HomePage \in Range(include_pages)
   /\ device[HomePage].ok) =>
     /\ \E i \in 1..Len(pages) : pages[i].page = HomePage
     /\ \A i \in 1..Len(pages) :
          pages[i].page = HomePage =>
            \A oid \in RequiredIds :
              Cardinality({j \in 1..Len(pages[i].entries) :
                             pages[i].entries[j].id = oid}) = 1

\* The home page was built under the read-only policy from a page that
\* parsed into nothing and whose presence set could not be fetched.
C17_Witness ==
  /\ read_only
  /\ pc["main"] \notin {"connect", "build"}
  /\ HomePage \in Range(include_pages)
  /\ device[HomePage].ok
  /\ ~device[HomePage].ids_ok
  /\ device[HomePage].entries = <<>>

\* C18: a failed fetch never halts polling: the cycle goes on with the
\* endpoint groups that remain, each of which is fetched, and after a cycle
\* with a failed fetch the poll loop eventually starts another cycle.
C18_FailedFetchNeverHalts ==
  /\ [][\A t \in Threads :
          (pc[t] = "ps_fetch" /\ failed'[t] # failed[t]) =>
            /\ pc'[t] = "ps_loop"
            /\ poll'[t].groups = Tail(poll[t].groups)]_vars
  /\ \A t \in {"main", "loop"} :
       (pc[t] = "ps_loop" /\ failed[t] # {} /\ poll[t].groups # <<>>)
         ~> (pc[t] = "ps_fetch")
  /\ (\E t \in Threads : failed[t] # {}) ~> (pc["loop"] = "push_state")

\* The poll loop's cycle lost the feed endpoint and is publishing the
\* entities of the alarm endpoint.
C18_Witness ==
  /\ pc["loop"] = "ps_ents"
  /\ FeedRead \in failed["loop"]
  /\ EntityOf(entities, Head(poll["loop"].keys)).read = AlarmRead

\* C19: a page whose fetch or parse fails is skipped by build_pages: it
\* contributes no page and no entity, and every other configured page is
\* built and synchronized as it is built on its own.
C19_PageFailureContained ==
  pc["main"] \notin {"connect", "build"} =>
    /\ \A p \in Range(PagesToBuild) :
         IF device[p].ok
         THEN \E i \in 1..Len(pages) :
                pages[i] =
                  BuildPage(<<>>, p, device[p], read_only, lang_state)[1]
         ELSE \A i \in 1..Len(pages) : pages[i].page # p
    /\ \A i \in 1..Len(entities) : device[entities[i].page].ok
    /\ pc["main"] = "push_state" =>
         \A i \in 1..Len(pages) : \A j \in 1..Len(pages[i].entries) :
           \E k \in 1..Len(entities) :
             entities[k] = Entity(pages[i], pages[i].entries[j])

\* Synchronization is over: the alarm page failed between the home page and
\* the feed page, which both brought entities.
C19_Witness ==
  /\ pc["main"] = "push_state"
  /\ device[HomePage].ok /\ ~device[AlarmPage].ok /\ device[FeedPage].ok
  /\ include_pages = DefaultPages
  /\ \E i \in 1..Len(entities) : entities[i].page = HomePage
  /\ \E i \in 1..Len(entities) : entities[i].page = FeedPage

\* C20: discovery precedes state: no state or attributes message is
\* published for an entity whose sensor descriptor has not been published,
\* also in a poll cycle a command triggers while discovery is under way.
C20_DiscoveryBeforeState ==
  \A k \in DOMAIN retained_state \cup DOMAIN retained_attr :
    \E c \in configs : c.component = "sensor" /\ c.key = k

\* A poll cycle triggered by a command has published state while
\* publish_discovery is still at work.
C20_Witness ==
  /\ pc["main"] \in {"discover", "discover_put"}
  /\ DOMAIN retained_state # {}
  /\ published["mqtt"] # {}

\* C21: every value written for an enumeration entity with an option list is
\* the decimal string of an index i with 0 <= i < len(options); a digit
\* payload outside that range does not reach the device.
C21_WrittenIndexInRange ==
  (pc["mqtt"] = "writing" /\ Addressed(entities, msg.topic) # <<>>) =>
    LET ent == Head(Addressed(entities, msg.topic))
    IN  (ent.it = "e" /\ ent.enum # <<>>) =>
          \E i \in 0..(Len(ent.enum) - 1) : write.value = PyStr(i)

\* C22: distinct synchronized entities never share a discovery config topic:
\* descriptors of entities with different (page, object id) have different
\* topics, so none overwrites the retained descriptor of another.
C22_ConfigTopicsDistinct ==
  \A c1 \in configs, c2 \in configs :
    c1.key # c2.key =>
      ConfigTopic(c1.component, c1.label) # ConfigTopic(c2.component, c2.label)

\* C23: a poll cycle never publishes an empty payload on a retained state
\* topic: for every decoded record, one with an empty raw value included, a
\* non-empty state is published or nothing is.
C23_NoEmptyState ==
  \A k \in DOMAIN retained_state : retained_state[k] # <<>>

\* C24: once the offline marker has been published during shutdown, no state
\* or attributes message is published by the poll loop or by a poll cycle a
\* command triggered: the offline marker is the last message published.
C24_OfflineIsLast ==
  [][status = "offline" =>
       /\ UNCHANGED <<retained_state, retained_attr, configs>>
       /\ \A t \in Threads : published'[t] \subseteq published[t]]_vars

====
